---- MODULE Spec2Model ----
(***************************************************************************)
(* Model of the movie enrichment and recommendation pipeline:              *)
(*   src/src/config/database.ts            (Database)                      *)
(*   src/src/services/enrichmentService.ts (EnrichmentService)             *)
(*   src/unnamed/part_001                  (RecommendationService)         *)
(*                                                                         *)
(* Numbers that are JavaScript doubles in the source are exact rationals   *)
(* <<n, d>> (d > 0, lowest terms) here.  A nullable number is a record     *)
(* [isNull, val].  Strings that hold JSON are modelled by what JSON.parse  *)
(* and the following property accesses make of them.                       *)
(***************************************************************************)
EXTENDS Integers, Sequences, FiniteSets, TLC

VARIABLES
    catalog,        \* rows of table movies, in storage order
    ratings,        \* rows of table ratings
    tableExists,    \* table movie_enrichments has been created
    store,          \* rows of table movie_enrichments
    pc,             \* position of the enrichMovies call
    movieCount,     \* its argument
    movies,         \* its local `movies` (the selection)
    idx,            \* its loop variable i
    input,          \* <<the EnrichmentInput of the item>> while the oracle is asked
    pending,        \* <<the enrichment enrichSingleMovie returned>> while it is saved
    enrichments,    \* its local `enrichments` (the returned list)
    failed,         \* history: loop indices whose try block threw
    written,        \* history: rows the run handed to a successful save
    lastSaved,      \* history: per movie id, the row of the last successful save
    content,        \* the text the enrichment oracle returned for the item
    overwrote,      \* history: a save replaced a row by a different one
    scanned,        \* history: catalog movies the selection of the run looked up
    started,        \* history: loop indices whose iteration has begun, in order
    delays,         \* history: the suspensions of the run that have ended
    rpc,            \* position of the getRecommendations call
    userId,         \* its argument userId
    count,          \* its argument count
    prefContent,    \* the text the preference oracle returned to it
    preferences,    \* <<the UserPreferences derived>>, not persisted
    candidateMovies, \* its local candidateMovies
    rankContent,    \* the text the ranking oracle returned to it
    recommendations, \* the list it returned
    prefCalls,      \* history: preference oracle requests of the call
    rankCalls,      \* history: ranking oracle requests of the call
    apc,            \* position of the naturalLanguageQuery / compareMovies call
    op,             \* which of the two is running
    query,          \* argument query of naturalLanguageQuery
    movieIds,       \* argument movieIds of compareMovies
    askUserId,      \* argument userId of either (NoUser when undefined)
    context,        \* the movies put into the prompt
    userContext,    \* <<the UserPreferences put into the prompt>>, or <<>> for ''
    request,        \* <<the prompt sent to the oracle>>
    askPrefContent, \* the text the preference oracle returned to the call
    askResult,      \* <<the value the call returned>>
    error,          \* the message of the error the call threw
    prefFailed,     \* history: analyzeUserPreferences threw inside the call
    askCalls,       \* history: oracle requests of the call proper
    askPrefCalls,   \* history: preference oracle requests of the call
    fnArgs,         \* the arguments of a function applied on its own
    fnResult,       \* <<its result>>
    body,           \* req.body.count of the POST /enrich request being served
    status,         \* its HTTP status, "pending" while enrichMovies runs
    oracle,         \* the text a repeatable oracle returns, per movie id
    batch,          \* the movieCount the runs are repeated with
    crashes         \* history: per crash of the process, the rows its run had written

histVars == <<scanned, started, delays>>
enrichVars == <<pc, movieCount, movies, idx, input, pending, content, enrichments,
                failed, written, lastSaved, overwrote, histVars>>
dataVars == <<catalog, ratings>>
storeVars == <<tableExists, store>>
recVars == <<rpc, userId, count, prefContent, preferences, candidateMovies,
             rankContent, recommendations, prefCalls, rankCalls>>
askVars == <<apc, op, query, movieIds, askUserId, context, userContext, request,
             askPrefContent, askResult, error, prefFailed, askCalls, askPrefCalls>>
fnVars == <<fnArgs, fnResult>>
routeVars == <<body, status>>
crashVars == <<oracle, batch, crashes>>
vars == <<dataVars, storeVars, enrichVars, recVars, askVars, fnVars, routeVars,
          crashVars>>

----------------------------------------------------------------------------
(* Bounds of the model *)

MaxCount == 3
MaxRatings == 2
MaxRecRatings == 3
MaxRecCount == 2
MaxTriples == 2

----------------------------------------------------------------------------
(* Exact arithmetic *)

RECURSIVE Gcd(_, _)
Gcd(a, b) ==
    IF b = 0 THEN a ELSE Gcd(b, a % b)

Abs(x) ==
    IF x < 0 THEN -x ELSE x

Rat(n, d) ==
    LET s == IF d < 0 THEN -1 ELSE 1
        g == Gcd(Abs(n), Abs(d))
    IN  IF n = 0 THEN <<0, 1>> ELSE <<(s * n) \div g, (s * d) \div g>>

RatAdd(a, b) ==
    Rat(a[1] * b[2] + b[1] * a[2], a[2] * b[2])

\* the product, reduced crosswise before multiplying
RatMul(a, b) ==
    LET g1 == Gcd(Abs(a[1]), b[2])
        g2 == Gcd(Abs(b[1]), a[2])
    IN  Rat((a[1] \div g1) * (b[1] \div g2), (a[2] \div g2) * (b[2] \div g1))

RatLess(a, b) ==
    a[1] * b[2] < b[1] * a[2]

RatMin(a, b) ==
    IF RatLess(b, a) THEN b ELSE a

RatMax(a, b) ==
    IF RatLess(a, b) THEN b ELSE a

\* A count is a JavaScript number that is an integer or NaN.
NaN == [isNaN |-> TRUE, val |-> 0]

Integer(n) ==
    [isNaN |-> FALSE, val |-> n]

\* a < b, a > b and a >= b on such numbers: false when either is NaN
LessThan(a, b) ==
    ~a.isNaN /\ ~b.isNaN /\ a.val < b.val

GreaterThan(a, b) ==
    LessThan(b, a)

AtLeast(a, b) ==
    ~a.isNaN /\ ~b.isNaN /\ a.val >= b.val

Null == [isNull |-> TRUE, val |-> <<0, 1>>]

Num(r) ==
    [isNull |-> FALSE, val |-> r]

----------------------------------------------------------------------------
(* The movie catalog (table movies) *)

\* productionCompanies is a string holding JSON.  kind says what the code's
\* parse makes of it: "empty" (null, '' or blanks), "invalid" (JSON.parse
\* throws), "notlist" (valid JSON without .map/.some) or "list", whose names
\* are the elements' name properties ("" when the element has none).
NoCompanies == [kind |-> "empty", names |-> <<>>]
BadCompanies == [kind |-> "invalid", names |-> <<>>]
NotListCompanies == [kind |-> "notlist", names |-> <<>>]

Companies(names) ==
    [kind |-> "list", names |-> names]

\* releaseDate is a zero-padded ISO string; dates are numbered in string
\* order, 0 being the empty string.
Movie(id, companies, date, budget, revenue) ==
    [movieId |-> id, productionCompanies |-> companies, releaseDate |-> date,
     budget |-> budget, revenue |-> revenue]

CatalogA ==
    << Movie(1, NoCompanies, 1, 100, 150),
       Movie(2, BadCompanies, 2, 100, 1000),
       Movie(3, Companies(<<"">>), 3, 0, 0) >>

CatalogB ==
    << Movie(1, Companies(<<"Acme">>), 1, 100, 150),
       Movie(2, Companies(<<"", "Acme">>), 2, 100, 50),
       Movie(3, Companies(<<"Acme", "Other">>), 3, 100, 1000) >>

CatalogC ==
    << Movie(1, Companies(<<"Other", "Acme">>), 2, 100, 0),
       Movie(2, Companies(<<"Acme">>), 3, 0, 150),
       Movie(3, NotListCompanies, 3, 100, 150) >>

Catalogs == {CatalogA, CatalogB, CatalogC}

MovieIds == {1, 2, 3}
UserIds == {1, 2}

\* The score a user gives a movie in the rating universe.
RatingValue(u, m) ==
    IF u = 1 THEN 5 ELSE m

RatingUniverse ==
    {[userId |-> u, movieId |-> m, rating |-> RatingValue(u, m)] :
        u \in UserIds, m \in MovieIds}

RatingSetsUpTo(n) ==
    {r \in SUBSET RatingUniverse : Cardinality(r) <= n}

----------------------------------------------------------------------------
(* Database, ratings side *)

RECURSIVE SumRatings(_)
SumRatings(rs) ==
    IF rs = {} THEN 0
    ELSE LET r == CHOOSE x \in rs : TRUE
         IN  r.rating + SumRatings(rs \ {r})

\* SELECT AVG(rating), COUNT(*) FROM ratings WHERE movieId = ?
\* always yields one row; AVG over no rows is NULL.
getAverageRatingForMovie(movieId) ==
    LET rs == {r \in ratings : r.movieId = movieId}
    IN  [avgRating |-> IF rs = {} THEN Null
                       ELSE Num(Rat(SumRatings(rs), Cardinality(rs))),
         count |-> Cardinality(rs)]

----------------------------------------------------------------------------
(* EnrichmentService: selection *)

\* The selection loop admitting every movie (count >= 0 for count > 0).
RECURSIVE SelectScanAny(_, _, _, _)
SelectScanAny(k, acc, examined, limit) ==
    IF k > Len(catalog) \/ AtLeast(Integer(Len(acc)), limit)
    THEN [selected |-> acc, examined |-> examined]
    ELSE SelectScanAny(k + 1, Append(acc, catalog[k]), examined + 1, limit)

\* The selection loop breaking only when more than limit are admitted.
RECURSIVE SelectScanOver(_, _, _, _)
SelectScanOver(k, acc, examined, limit) ==
    IF k > Len(catalog) \/ GreaterThan(Integer(Len(acc)), limit)
    THEN [selected |-> acc, examined |-> examined]
    ELSE LET ratingStats == getAverageRatingForMovie(catalog[k].movieId)
         IN  IF ratingStats.count > 0
             THEN SelectScanOver(k + 1, Append(acc, catalog[k]), examined + 1, limit)
             ELSE SelectScanOver(k + 1, acc, examined + 1, limit)

\* The for loop of selectMoviesWithRatings from catalog position k on:
\* the movies admitted and the number of catalog movies examined.
RECURSIVE SelectScan(_, _, _, _)
SelectScan(k, acc, examined, limit) ==
    IF k > Len(catalog) \/ AtLeast(Integer(Len(acc)), limit)
    THEN [selected |-> acc, examined |-> examined]
    ELSE LET ratingStats == getAverageRatingForMovie(catalog[k].movieId)
         IN  IF ratingStats.count > 0
             THEN SelectScan(k + 1, Append(acc, catalog[k]), examined + 1, limit)
             ELSE SelectScan(k + 1, acc, examined + 1, limit)

selectMoviesWithRatings(limit) ==
    SelectScan(1, <<>>, 0, limit).selected

----------------------------------------------------------------------------
(* EnrichmentService: rolling ROI *)

WindowSize == 10

\* Array.prototype.sort with a releaseDate comparator (stable): insertion
\* of m behind every element whose date is not later.
RECURSIVE InsertByDate(_, _)
InsertByDate(s, m) ==
    IF s = <<>> THEN <<m>>
    ELSE IF s[Len(s)].releaseDate <= m.releaseDate THEN Append(s, m)
    ELSE Append(InsertByDate(SubSeq(s, 1, Len(s) - 1), m), s[Len(s)])

RECURSIVE SortByDate(_)
SortByDate(s) ==
    IF s = <<>> THEN <<>>
    ELSE InsertByDate(SortByDate(SubSeq(s, 1, Len(s) - 1)), s[Len(s)])

\* The first n instead of the last n: s.slice(0, n)
SliceOldest(s, n) ==
    IF Len(s) <= n THEN s ELSE SubSeq(s, 1, n)

\* s.slice(-n)
SliceLast(s, n) ==
    IF Len(s) <= n THEN s ELSE SubSeq(s, Len(s) - n + 1, Len(s))

\* mCompanies.some(c => c.name === primaryCompany), false when the parse or
\* the call throws
HasCompany(m, primaryCompany) ==
    /\ m.productionCompanies.kind = "list"
    /\ \E k \in 1..Len(m.productionCompanies.names) :
           m.productionCompanies.names[k] = primaryCompany

IsNonEmptyName(n) ==
    n # ""

IsValidFinance(m) ==
    m.budget > 0 /\ m.revenue > 0

\* ((m.revenue - m.budget) / m.budget) * 100
MovieROI(m) ==
    RatMul(Rat(m.revenue - m.budget, m.budget), <<100, 1>>)

RECURSIVE SumROI(_)
SumROI(s) ==
    IF s = <<>> THEN <<0, 1>>
    ELSE RatAdd(SumROI(Tail(s)), MovieROI(Head(s)))

PreviousMovies(movie, allMovies, primaryCompany) ==
    LET byCompany == SelectSeq(allMovies, LAMBDA m : HasCompany(m, primaryCompany))
        earlier == SelectSeq(byCompany,
                     LAMBDA m : m.releaseDate # 0 /\ m.releaseDate < movie.releaseDate)
    IN  SliceLast(SortByDate(earlier), WindowSize)

\* The rolling ROI with "no eligible movie" reported as 0.
calculateCompanyROIZero(movie, allMovies) ==
    IF movie.productionCompanies.kind # "list" THEN Null
    ELSE LET companies == SelectSeq(movie.productionCompanies.names, IsNonEmptyName)
         IN  IF companies = <<>> THEN Null
             ELSE LET previousMovies == PreviousMovies(movie, allMovies, companies[1])
                      valid == SelectSeq(previousMovies, IsValidFinance)
                  IN  IF previousMovies = <<>> THEN Null
                      ELSE IF Len(valid) > 0
                           THEN Num(RatMul(SumROI(valid), <<1, Len(valid)>>))
                           ELSE Num(<<0, 1>>)

calculateCompanyROI(movie, allMovies) ==
    IF movie.productionCompanies.kind # "list" THEN Null
    ELSE LET companies == SelectSeq(movie.productionCompanies.names, IsNonEmptyName)
         IN  IF companies = <<>> THEN Null
             ELSE LET previousMovies == PreviousMovies(movie, allMovies, companies[1])
                      valid == SelectSeq(previousMovies, IsValidFinance)
                  IN  IF previousMovies = <<>> THEN Null
                      ELSE IF Len(valid) > 0
                           THEN Num(RatMul(SumROI(valid), <<1, Len(valid)>>))
                           ELSE Null

----------------------------------------------------------------------------
(* EnrichmentService: production effectiveness *)

\* Math.log10 of the revenues of the catalogs, in ten-thousandths.
Log10E4(x) ==
    CASE x = 1 -> 0
      [] x = 50 -> 16990
      [] x = 150 -> 21761
      [] x = 1000 -> 30000
      [] x = 1000000000 -> 90000
      [] x = 2000000000 -> 93010

\* Number(x.toFixed(2)): the nearest multiple of 1/100
ToFixed2(r) ==
    Rat((2 * 100 * r[1] + r[2]) \div (2 * r[2]), 100)

\* (avgRating / 5.0) * 100
RatingScore(avgRating) ==
    RatMul(avgRating, <<20, 1>>)

\* Math.min(100, Math.max(0, (roi + 50) / 2)), 0 without positive budget
\* and revenue
RoiScore(movie) ==
    IF movie.budget > 0 /\ movie.revenue > 0
    THEN RatMin(<<100, 1>>,
           RatMax(<<0, 1>>,
             RatMul(RatAdd(MovieROI(movie), <<50, 1>>), <<1, 2>>)))
    ELSE <<0, 1>>

\* The revenue score without the cap at 100.
RevenueScoreUncapped(movie) ==
    IF movie.revenue > 0
    THEN Rat(Log10E4(movie.revenue), 900)
    ELSE <<0, 1>>

\* Math.min(100, (Math.log10(movie.revenue) / 9) * 100), 0 without positive
\* revenue
RevenueScore(movie) ==
    IF movie.revenue > 0
    THEN RatMin(<<100, 1>>, Rat(Log10E4(movie.revenue), 900))
    ELSE <<0, 1>>

calculateProductionEffectiveness(movie, avgRating) ==
    LET ratingScore == RatingScore(avgRating)
        roiScore == RoiScore(movie)
        revenueScore == RevenueScore(movie)
    IN  ToFixed2(RatAdd(RatMul(ratingScore, <<2, 5>>),
                   RatAdd(RatMul(roiScore, <<7, 20>>),
                          RatMul(revenueScore, <<1, 4>>))))

----------------------------------------------------------------------------
(* EnrichmentService: the enrichment oracle's answer *)

EnrichmentKeys == {"awardPotential", "popularityQualityIndex", "emotionalGenres"}

\* message.content as the code reads it.  kind: "null" (no or empty
\* completion), "text" (JSON.parse throws), "nonobject" (JSON that is no
\* object: null, a number, an array) or "object" with the keys it carries.
Content(kind, keys, award, pqi, genres) ==
    [kind |-> kind, keys |-> keys, awardPotential |-> award,
     popularityQualityIndex |-> pqi, emotionalGenres |-> genres]

NoContent == Content("none", {}, "", 0, "")

EnrichmentContents ==
    { Content("null", {}, "", 0, ""),
      Content("text", {}, "", 0, ""),
      Content("nonobject", {}, "", 0, ""),
      Content("object", EnrichmentKeys, "High", 75, "dark"),
      Content("object", {"awardPotential", "popularityQualityIndex"}, "Maybe", 150, "") }

\* parsed.key: the value JSON.parse(content) carries for key, if any.
\* content?.trim() || '{}' turns a missing completion into the empty object.
Carries(c, key) ==
    c.kind = "object" /\ key \in c.keys

\* a || b on strings and on numbers
OrString(present, v, default) ==
    IF present /\ v # "" THEN v ELSE default

OrNumber(present, v, default) ==
    IF present /\ v # 0 THEN v ELSE default

getLLMEnrichments(c) ==
    [awardPotential |->
        OrString(Carries(c, "awardPotential"), c.awardPotential, "Medium"),
     popularityQualityIndex |->
        OrNumber(Carries(c, "popularityQualityIndex"), c.popularityQualityIndex, 50),
     emotionalGenres |->
        OrString(Carries(c, "emotionalGenres"), c.emotionalGenres, "emotional")]

\* The EnrichmentInput enrichSingleMovie assembles before the oracle call.
EnrichmentInput(movie) ==
    LET ratingStats == getAverageRatingForMovie(movie.movieId)
    IN  [movie |-> movie,
         avgRating |-> IF ratingStats.avgRating.isNull THEN <<0, 1>>
                       ELSE ratingStats.avgRating.val,
         ratingCount |-> ratingStats.count,
         companyROI |-> calculateCompanyROI(movie, catalog)]

\* The MovieEnrichment enrichSingleMovie returns.
enrichSingleMovie(inp, c) ==
    LET llmEnrichments == getLLMEnrichments(c)
    IN  [movieId |-> inp.movie.movieId,
         awardPotential |-> llmEnrichments.awardPotential,
         popularityQualityIndex |-> llmEnrichments.popularityQualityIndex,
         emotionalGenres |-> llmEnrichments.emotionalGenres,
         productionCompanyRollingROI |-> inp.companyROI,
         productionEffectivenessScore |->
            calculateProductionEffectiveness(inp.movie, inp.avgRating)]

----------------------------------------------------------------------------
(* Database, enrichment side *)

RowsOf(table, movieId) ==
    {r \in table : r.movieId = movieId}

\* INSERT OR IGNORE: the row already there wins.
saveEnrichmentIgnore(table, enrichment) ==
    IF RowsOf(table, enrichment.movieId) # {} THEN table
    ELSE table \cup {enrichment}

\* A save that binds the oracle's attributes only, leaving the scores to a
\* later statement.
saveEnrichmentPartial(table, enrichment) ==
    (table \ RowsOf(table, enrichment.movieId))
        \cup {[movieId |-> enrichment.movieId,
                awardPotential |-> enrichment.awardPotential,
                popularityQualityIndex |-> enrichment.popularityQualityIndex,
                emotionalGenres |-> enrichment.emotionalGenres]}

\* INSERT OR REPLACE into a table whose PRIMARY KEY is movieId
saveEnrichment(table, enrichment) ==
    (table \ RowsOf(table, enrichment.movieId)) \cup {enrichment}

----------------------------------------------------------------------------
(* EnrichmentService.enrichMovies *)

NoRows == [m \in MovieIds |-> <<>>]

\* The interval of this.delay(500)
DelayMs == 500

InitEnrich ==
    /\ pc = "idle"
    /\ movieCount = Integer(0)
    /\ movies = <<>>
    /\ idx = 0
    /\ input = <<>>
    /\ pending = <<>>
    /\ content = NoContent
    /\ enrichments = <<>>
    /\ failed = {}
    /\ written = <<>>
    /\ lastSaved = NoRows
    /\ overwrote = FALSE
    /\ scanned = 0
    /\ started = <<>>
    /\ delays = <<>>

\* No getRecommendations call has been made.
InitRecommend ==
    /\ rpc = "idle"
    /\ userId = 0
    /\ count = 0
    /\ prefContent = NoContent
    /\ preferences = <<>>
    /\ candidateMovies = <<>>
    /\ rankContent = NoContent
    /\ recommendations = <<>>
    /\ prefCalls = 0
    /\ rankCalls = 0

NoUser == 0

\* No naturalLanguageQuery or compareMovies call has been made.
InitAsk ==
    /\ apc = "idle"
    /\ op = "none"
    /\ query = ""
    /\ movieIds = <<>>
    /\ askUserId = NoUser
    /\ context = <<>>
    /\ userContext = <<>>
    /\ request = <<>>
    /\ askPrefContent = NoContent
    /\ askResult = <<>>
    /\ error = ""
    /\ prefFailed = FALSE
    /\ askCalls = 0
    /\ askPrefCalls = 0

\* No function is applied on its own.
InitFn ==
    /\ fnArgs = <<>>
    /\ fnResult = <<>>

\* req.body.count: absent, a JSON number or a JSON string (its characters).
NoCount == [type |-> "undefined", val |-> 0, chars |-> <<>>]

\* No POST /enrich request is being served.
InitRoute ==
    /\ body = NoCount
    /\ status = "none"

\* No run is being repeated after a crash.
InitNoCrash ==
    /\ oracle = <<>>
    /\ batch = 0
    /\ crashes = <<>>

Init ==
    /\ catalog \in Catalogs
    /\ ratings \in RatingSetsUpTo(MaxRatings)
    /\ tableExists = FALSE
    /\ store = {}
    /\ InitEnrich
    /\ InitRecommend
    /\ InitAsk
    /\ InitFn
    /\ InitRoute
    /\ InitNoCrash

\* The entry of enrichMovies(n): its locals are fresh.
BeginRun(n) ==
    /\ pc \in {"idle", "done", "threw"}
    /\ pc' = "selecting"
    /\ movieCount' = n
    /\ movies' = <<>>
    /\ idx' = 0
    /\ enrichments' = <<>>
    /\ failed' = {}
    /\ written' = <<>>
    /\ scanned' = 0
    /\ started' = <<>>
    /\ delays' = <<>>
    /\ UNCHANGED <<input, pending, content, lastSaved, overwrote>>

\* enrichMovies(n) is called directly (scripts/enrichMovies.ts).
StartRun(n) ==
    /\ BeginRun(n)
    /\ UNCHANGED <<dataVars, storeVars, recVars, askVars, fnVars, routeVars,
                   crashVars>>

\* const movies = await this.selectMoviesWithRatings(movieCount)
Select ==
    /\ pc = "selecting"
    /\ movies' = selectMoviesWithRatings(movieCount)
    /\ pc' = "initTable"
    /\ UNCHANGED <<movieCount, idx, input, pending, content, enrichments, failed,
                   written, lastSaved, overwrote>>
    /\ scanned' = SelectScan(1, <<>>, 0, movieCount).examined
    /\ UNCHANGED <<started, delays>>
    /\ UNCHANGED <<dataVars, storeVars, recVars, askVars, fnVars, routeVars,
                   crashVars>>

\* a query of the selection rejects: the exception leaves enrichMovies
SelectThrows ==
    /\ pc = "selecting"
    /\ pc' = "threw"
    /\ UNCHANGED <<movieCount, movies, idx, input, pending, content, enrichments,
                   failed, written, lastSaved, overwrote>>
    /\ UNCHANGED histVars
    /\ UNCHANGED <<dataVars, storeVars, recVars, askVars, fnVars, routeVars,
                   crashVars>>

\* await this.db.initializeEnrichmentTable(): CREATE TABLE IF NOT EXISTS
InitTable ==
    /\ pc = "initTable"
    /\ tableExists' = TRUE
    /\ pc' = "loop"
    /\ idx' = 1
    /\ UNCHANGED <<movieCount, movies, input, pending, content, enrichments, failed,
                   written, lastSaved, overwrote>>
    /\ UNCHANGED histVars
    /\ UNCHANGED <<dataVars, store, recVars, askVars, fnVars, routeVars,
                   crashVars>>

InitTableThrows ==
    /\ pc = "initTable"
    /\ pc' = "threw"
    /\ UNCHANGED <<movieCount, movies, idx, input, pending, content, enrichments,
                   failed, written, lastSaved, overwrote>>
    /\ UNCHANGED histVars
    /\ UNCHANGED <<dataVars, storeVars, recVars, askVars, fnVars, routeVars,
                   crashVars>>

\* A catch block that throws the error on instead of swallowing it.
CatchItemRethrows ==
    /\ pc' = "threw"
    /\ UNCHANGED <<movieCount, movies, idx, input, pending, content, enrichments,
                   failed, written, lastSaved, overwrote>>
    /\ UNCHANGED <<scanned, delays>>
    /\ UNCHANGED <<dataVars, storeVars, recVars, askVars, fnVars, routeVars,
                   crashVars>>

\* A catch block after which the loop tries the same item again.
CatchItemRetry ==
    /\ failed' = failed \cup {idx}
    /\ idx' = idx
    /\ pc' = "loop"
    /\ input' = <<>>
    /\ pending' = <<>>
    /\ content' = NoContent
    /\ UNCHANGED <<movieCount, movies, enrichments, written, lastSaved,
                   overwrote>>
    /\ UNCHANGED <<scanned, delays>>
    /\ UNCHANGED <<dataVars, storeVars, recVars, askVars, fnVars, routeVars,
                   crashVars>>

\* The catch block of the loop body: log, then the loop's i++.
CatchItem ==
    /\ failed' = failed \cup {idx}
    /\ idx' = idx + 1
    /\ pc' = "loop"
    /\ input' = <<>>
    /\ pending' = <<>>
    /\ content' = NoContent
    /\ UNCHANGED <<movieCount, movies, enrichments, written, lastSaved,
                   overwrote>>
    /\ UNCHANGED <<scanned, delays>>
    /\ UNCHANGED <<dataVars, storeVars, recVars, askVars, fnVars, routeVars,
                   crashVars>>

\* enrichSingleMovie up to the oracle request: rating lookup, rolling ROI.
ItemStart ==
    /\ pc = "loop"
    /\ idx <= Len(movies)
    /\ input' = <<EnrichmentInput(movies[idx])>>
    /\ pc' = "oracle"
    /\ UNCHANGED <<movieCount, movies, idx, pending, content, enrichments, failed,
                   written, lastSaved, overwrote>>
    /\ started' = Append(started, idx)
    /\ UNCHANGED <<scanned, delays>>
    /\ UNCHANGED <<dataVars, storeVars, recVars, askVars, fnVars, routeVars,
                   crashVars>>

\* getAverageRatingForMovie or the getMovies of calculateCompanyROI rejects.
LookupThrows ==
    /\ pc = "loop"
    /\ idx <= Len(movies)
    /\ started' = Append(started, idx)
    /\ CatchItem

\* openai.chat.completions.create rejects, or the response has no choice.
OracleThrows ==
    /\ pc = "oracle"
    /\ UNCHANGED started
    /\ CatchItem

\* The oracle answers with text c; enrichSingleMovie returns.
OracleResponds(c) ==
    /\ pc = "oracle"
    /\ content' = c
    /\ pending' = <<enrichSingleMovie(input[1], c)>>
    /\ input' = <<>>
    /\ pc' = "save"
    /\ UNCHANGED <<movieCount, movies, idx, enrichments, failed, written,
                   lastSaved, overwrote>>
    /\ UNCHANGED histVars
    /\ UNCHANGED <<dataVars, storeVars, recVars, askVars, fnVars, routeVars,
                   crashVars>>

\* The save followed by the delay after every item, the last included.
SaveEnrichmentAlwaysDelays ==
    /\ pc = "save"
    /\ tableExists
    /\ LET e == pending[1]
       IN  /\ store' = saveEnrichment(store, e)
           /\ enrichments' = Append(enrichments, e)
           /\ written' = Append(written, e)
           /\ lastSaved' = [lastSaved EXCEPT ![e.movieId] = <<e>>]
           /\ overwrote' = (overwrote \/ \E r \in RowsOf(store, e.movieId) : r # e)
    /\ pending' = <<>>
    /\ content' = NoContent
    /\ pc' = "delay"
    /\ idx' = idx
    /\ UNCHANGED <<movieCount, movies, input, failed>>
    /\ UNCHANGED histVars
    /\ UNCHANGED <<dataVars, tableExists, recVars, askVars, fnVars, routeVars,
                   crashVars>>

\* await this.db.saveEnrichment(enrichment) resolves; enrichments.push;
\* then the delay, unless this was the last item.
SaveEnrichment ==
    /\ pc = "save"
    /\ tableExists
    /\ LET e == pending[1]
       IN  /\ store' = saveEnrichment(store, e)
           /\ enrichments' = Append(enrichments, e)
           /\ written' = Append(written, e)
           /\ lastSaved' = [lastSaved EXCEPT ![e.movieId] = <<e>>]
           /\ overwrote' = (overwrote \/ \E r \in RowsOf(store, e.movieId) : r # e)
    /\ pending' = <<>>
    /\ content' = NoContent
    /\ IF idx < Len(movies)
       THEN pc' = "delay" /\ idx' = idx
       ELSE pc' = "loop" /\ idx' = idx + 1
    /\ UNCHANGED <<movieCount, movies, input, failed>>
    /\ UNCHANGED histVars
    /\ UNCHANGED <<dataVars, tableExists, recVars, askVars, fnVars, routeVars,
                   crashVars>>

\* saveEnrichment rejects: nothing is written, nothing is pushed.
SaveThrows ==
    /\ pc = "save"
    /\ UNCHANGED started
    /\ CatchItem

\* await this.delay(500) resolves; the loop's i++.
DelayDone ==
    /\ pc = "delay"
    /\ idx' = idx + 1
    /\ pc' = "loop"
    /\ UNCHANGED <<movieCount, movies, input, pending, content, enrichments, failed,
                   written, lastSaved, overwrote>>
    /\ delays' = Append(delays, [after |-> idx, ms |-> DelayMs])
    /\ UNCHANGED <<scanned, started>>
    /\ UNCHANGED <<dataVars, storeVars, recVars, askVars, fnVars, routeVars,
                   crashVars>>

\* return enrichments
Return ==
    /\ pc = "loop"
    /\ idx > Len(movies)
    /\ pc' = "done"
    /\ UNCHANGED <<movieCount, movies, idx, input, pending, content, enrichments,
                   failed, written, lastSaved, overwrote>>
    /\ UNCHANGED histVars
    /\ UNCHANGED <<dataVars, storeVars, recVars, askVars, fnVars, routeVars,
                   crashVars>>

Next ==
    \/ \E n \in 0..MaxCount : StartRun(Integer(n))
    \/ Select
    \/ SelectThrows
    \/ InitTable
    \/ InitTableThrows
    \/ ItemStart
    \/ LookupThrows
    \/ OracleThrows
    \/ \E c \in EnrichmentContents : OracleResponds(c)
    \/ SaveEnrichment
    \/ SaveThrows
    \/ DelayDone
    \/ Return

Spec == Init /\ [][Next]_vars

----------------------------------------------------------------------------
(* Properties of enrichMovies *)

IsRated(movieId) ==
    \E r \in ratings : r.movieId = movieId

MovieById(movieId) ==
    catalog[CHOOSE k \in 1..Len(catalog) : catalog[k].movieId = movieId]

\* The ids of the selected movies whose loop body did not throw, in order.
RECURSIVE SucceededIds(_)
SucceededIds(k) ==
    IF k = 0 THEN <<>>
    ELSE IF k \in failed THEN SucceededIds(k - 1)
    ELSE Append(SucceededIds(k - 1), movies[k].movieId)

\* C1: once selection and table initialisation have succeeded no exception
\* leaves enrichMovies, whatever set of items fails; the returned list is the
\* selected movies that did not fail, in selection order, and the rows the
\* run wrote are the rows of exactly those movies (N - |F| of them).
C1_BestEffortBatch ==
    /\ pc = "threw" => idx = 0
    /\ pc = "done" =>
        /\ failed \subseteq 1..Len(movies)
        /\ [k \in 1..Len(enrichments) |-> enrichments[k].movieId]
              = SucceededIds(Len(movies))
        /\ written = enrichments
        /\ Len(written) = Len(movies) - Cardinality(failed)
        /\ \A k \in 1..Len(enrichments) : enrichments[k] \in store

C1_Witness ==
    /\ pc = "done"
    /\ Len(movies) = 2
    /\ failed = {1}
    /\ Len(enrichments) = 1
    /\ Cardinality(store) = 1

\* C2: the store holds at most one row per movie id, and that row is the
\* one of the most recent successful saveEnrichment for the id.
C2_UpsertIdempotent ==
    \A id \in MovieIds :
        /\ Cardinality(RowsOf(store, id)) <= 1
        /\ lastSaved[id] = <<>> => RowsOf(store, id) = {}
        /\ lastSaved[id] # <<>> => RowsOf(store, id) = {lastSaved[id][1]}

C2_Witness ==
    /\ overwrote
    /\ \E id \in MovieIds :
           lastSaved[id] # <<>> /\ RowsOf(store, id) = {lastSaved[id][1]}

\* C3: no movie without a rating is selected, and every enrichment row
\* belongs to a movie that has a rating.
C3_OnlyRatedSelected ==
    /\ \A k \in 1..Len(movies) : IsRated(movies[k].movieId)
    /\ \A r \in store : IsRated(r.movieId)
    /\ pending # <<>> => IsRated(pending[1].movieId)

C3_Witness ==
    /\ pc = "done"
    /\ movieCount = Integer(MaxCount)
    /\ ~IsRated(catalog[1].movieId)
    /\ Len(movies) = 2
    /\ Cardinality(store) = 2

\* The cases in which the rolling ROI of movie m is undefined.
HasNoROIHistory(m) ==
    LET names == SelectSeq(m.productionCompanies.names, IsNonEmptyName)
    IN  \/ m.productionCompanies.kind # "list"
        \/ names = <<>>
        \/ ~ \E k \in 1..Len(catalog) :
                 /\ HasCompany(catalog[k], names[1])
                 /\ catalog[k].releaseDate # 0
                 /\ catalog[k].releaseDate < m.releaseDate
        \/ LET window == PreviousMovies(m, catalog, names[1])
           IN  \A k \in 1..Len(window) :
                   ~(window[k].budget > 0 /\ window[k].revenue > 0)

\* C8: the rolling ROI of a movie without usable company data, without an
\* earlier movie of its primary company or without a window movie of positive
\* budget and revenue is null, in the enrichment input, in the record built
\* from it and in the persisted row.
C8_NullROI ==
    /\ \A r \in store :
           HasNoROIHistory(MovieById(r.movieId)) =>
               r.productionCompanyRollingROI = Null
    /\ pending # <<>> /\ HasNoROIHistory(MovieById(pending[1].movieId)) =>
           pending[1].productionCompanyRollingROI = Null
    /\ input # <<>> /\ HasNoROIHistory(input[1].movie) =>
           input[1].companyROI = Null

C8_Witness ==
    /\ catalog = CatalogC
    /\ \E r1, r2 \in store :
           /\ r1.movieId = 1
           /\ r2.movieId = 2
           /\ r1.productionCompanyRollingROI = Null
           /\ r2.productionCompanyRollingROI = Null

\* C9: every row of the store has awardPotential High, Medium or Low and a
\* popularityQualityIndex within 0..100.
C9_RowsInRange ==
    \A r \in store :
        /\ r.awardPotential \in {"High", "Medium", "Low"}
        /\ r.popularityQualityIndex \in 0..100

----------------------------------------------------------------------------
(* The enrichment oracle's answer, every shape: one item of a run *)

AllEnrichmentContents ==
    { Content("null", {}, "", 0, ""),
      Content("text", {}, "", 0, ""),
      Content("nonobject", {}, "", 0, "") }
    \cup
    { Content("object", keys, a, p, g) :
        keys \in SUBSET EnrichmentKeys,
        a \in {"High", "Maybe"},
        p \in {0, 75, 150},
        g \in {"dark, intense", "dark"} }

\* enrichMovies(1) has selected one movie and asked the oracle about it.
InitLLM ==
    /\ catalog \in Catalogs
    /\ ratings \in RatingSetsUpTo(1)
    /\ ratings # {}
    /\ tableExists = TRUE
    /\ store = {}
    /\ pc = "oracle"
    /\ movieCount = Integer(1)
    /\ movies = selectMoviesWithRatings(movieCount)
    /\ idx = 1
    /\ input = <<EnrichmentInput(movies[1])>>
    /\ pending = <<>>
    /\ content = NoContent
    /\ enrichments = <<>>
    /\ failed = {}
    /\ written = <<>>
    /\ lastSaved = NoRows
    /\ overwrote = FALSE
    /\ scanned = SelectScan(1, <<>>, 0, movieCount).examined
    /\ started = <<1>>
    /\ delays = <<>>
    /\ InitRecommend
    /\ InitAsk
    /\ InitFn
    /\ InitRoute
    /\ InitNoCrash

NextLLM ==
    \/ OracleThrows
    \/ \E c \in AllEnrichmentContents : OracleResponds(c)
    \/ SaveEnrichment
    \/ SaveThrows
    \/ Return

SpecLLM == InitLLM /\ [][NextLLM]_vars

\* C7: whatever text the oracle returns, each attribute of the record to be
\* persisted is the value the response carries for its key when the key is
\* present, and the default when the parse fails or the key is missing.
C7_ValueOrDefault ==
    pc = "save" =>
        /\ pending[1].awardPotential =
              IF Carries(content, "awardPotential")
              THEN content.awardPotential ELSE "Medium"
        /\ pending[1].popularityQualityIndex =
              IF Carries(content, "popularityQualityIndex")
              THEN content.popularityQualityIndex ELSE 50
        /\ pending[1].emotionalGenres =
              IF Carries(content, "emotionalGenres")
              THEN content.emotionalGenres ELSE "emotional"

----------------------------------------------------------------------------
(* Database, as RecommendationService reads it *)

\* SELECT * FROM ratings WHERE userId = ?
getRatingsByUserId(uid) ==
    {r \in ratings : r.userId = uid}

\* One row of movies m INNER JOIN movie_enrichments e ON m.movieId = e.movieId
EnrichedMovie(m, e) ==
    [movieId |-> m.movieId, productionCompanies |-> m.productionCompanies,
     releaseDate |-> m.releaseDate, budget |-> m.budget, revenue |-> m.revenue,
     awardPotential |-> e.awardPotential,
     popularityQualityIndex |-> e.popularityQualityIndex,
     emotionalGenres |-> e.emotionalGenres,
     productionCompanyRollingROI |-> e.productionCompanyRollingROI,
     productionEffectivenessScore |-> e.productionEffectivenessScore]

RECURSIVE JoinRows(_, _)
JoinRows(m, rows) ==
    IF rows = {} THEN <<>>
    ELSE LET e == CHOOSE x \in rows : TRUE
         IN  <<EnrichedMovie(m, e)>> \o JoinRows(m, rows \ {e})

RECURSIVE JoinFrom(_)
JoinFrom(k) ==
    IF k > Len(catalog) THEN <<>>
    ELSE JoinRows(catalog[k], RowsOf(store, catalog[k].movieId)) \o JoinFrom(k + 1)

getEnrichedMoviesWithDetails ==
    JoinFrom(1)

----------------------------------------------------------------------------
(* RecommendationService.analyzeUserPreferences *)

PreferenceKeys ==
    {"favoriteGenres", "preferredEmotionalTones", "budgetPreference", "summary"}

\* message.content of the preference request.  kind: "null" (no or empty
\* completion), "text" (JSON.parse throws), "jsonnull" (the JSON value null),
\* "nonobject" (a JSON number, string or array), "object", or "error" when
\* the request itself was rejected.
PrefContent(kind, keys, genres, tones, budget, summary) ==
    [kind |-> kind, keys |-> keys, favoriteGenres |-> genres,
     preferredEmotionalTones |-> tones, budgetPreference |-> budget,
     summary |-> summary]

NoPrefContent == PrefContent("none", {}, <<>>, <<>>, "", "")
PrefError == PrefContent("error", {}, <<>>, <<>>, "", "")

PrefContents ==
    { PrefContent("null", {}, <<>>, <<>>, "", ""),
      PrefContent("text", {}, <<>>, <<>>, "", ""),
      PrefContent("jsonnull", {}, <<>>, <<>>, "", ""),
      PrefContent("nonobject", {}, <<>>, <<>>, "", ""),
      PrefContent("object", PreferenceKeys, <<"Drama">>, <<"dark">>, "Indie", "likes dramas"),
      PrefContent("object", {"favoriteGenres"}, <<"Drama">>, <<>>, "", "") }

\* A parse that falls back to the defaults instead of throwing.
PreferencesParseLenient(c) ==
    TRUE

\* Whether the try block of analyzeUserPreferences returns: JSON.parse
\* succeeds and the property reads do not throw.
PreferencesParse(c) ==
    c.kind \in {"null", "nonobject", "object"}

OrList(present, v, default) ==
    IF present THEN v ELSE default

AverageRating(rs) ==
    Rat(SumRatings(rs), Cardinality(rs))

\* The UserPreferences analyzeUserPreferences returns for content c.
UserPreferences(uid, c) ==
    LET has(key) == c.kind = "object" /\ key \in c.keys
    IN  [userId |-> uid,
         favoriteGenres |-> OrList(has("favoriteGenres"), c.favoriteGenres, <<>>),
         averageRating |-> AverageRating(getRatingsByUserId(uid)),
         preferredEmotionalTones |->
             OrList(has("preferredEmotionalTones"), c.preferredEmotionalTones, <<>>),
         budgetPreference |->
             OrString(has("budgetPreference"), c.budgetPreference, "Mixed"),
         summary |->
             OrString(has("summary"), c.summary,
                      "User preferences could not be determined")]

----------------------------------------------------------------------------
(* RecommendationService.getRecommendations *)

\* The candidates without the exclusion of the user's rated movies.
CandidateMoviesAll(uid) ==
    getEnrichedMoviesWithDetails

\* enrichedMovies.filter(m => !ratedMovieIds.has(m.movieId))
CandidateMovies(uid) ==
    LET ratedMovieIds == {r.movieId : r \in getRatingsByUserId(uid)}
    IN  SelectSeq(getEnrichedMoviesWithDetails,
                  LAMBDA m : m.movieId \notin ratedMovieIds)

\* message.content of the ranking request.  kind: "null" (no completion),
\* "text" (JSON.parse throws), "nonobject" (JSON null, number or string),
\* "array" (a JSON array, whose elements are triples) or "object", which has
\* a recommendations list (triples) or none.
RankContent(kind, hasRecommendations, triples) ==
    [kind |-> kind, hasRecommendations |-> hasRecommendations, triples |-> triples]

NoRankContent == RankContent("none", FALSE, <<>>)

UnknownMovieId == 99

Triples ==
    {[movieId |-> m, score |-> 95, reasoning |-> "fits"] :
        m \in MovieIds \cup {UnknownMovieId}}

TripleLists ==
    UNION {[1..n -> Triples] : n \in 0..MaxTriples}

RankContents ==
    { RankContent("null", FALSE, <<>>),
      RankContent("text", FALSE, <<>>),
      RankContent("nonobject", FALSE, <<>>),
      RankContent("object", FALSE, <<>>) }
    \cup {RankContent("array", FALSE, t) : t \in TripleLists}
    \cup {RankContent("object", TRUE, t) : t \in TripleLists}

\* Whether the try block of getRecommendations returns:
\* parsed.recommendations.slice(...) needs parsed to be an object that has a
\* recommendations list.
RecommendationsParse(c) ==
    c.kind = "object" /\ c.hasRecommendations

\* candidateMovies.find(m => m.movieId === rec.movieId)
FindCandidate(candidates, movieId) ==
    IF \E k \in 1..Len(candidates) : candidates[k].movieId = movieId
    THEN LET k == CHOOSE i \in 1..Len(candidates) :
                    /\ candidates[i].movieId = movieId
                    /\ \A j \in 1..(i - 1) : candidates[j].movieId # movieId
         IN  <<candidates[k]>>
    ELSE <<>>

Recommendation(movie, rec) ==
    [movie |-> movie,
     score |-> OrNumber(TRUE, rec.score, 0),
     reasoning |-> OrString(TRUE, rec.reasoning,
                            "Recommended based on your preferences")]

\* The forEach over slice(0, n) that pushes an entry for every triple,
\* a candidate-less one for an id that is no candidate.
RECURSIVE ReconcilePlaceholder(_, _, _)
ReconcilePlaceholder(triples, candidates, n) ==
    IF triples = <<>> \/ n <= 0 THEN <<>>
    ELSE LET rec == Head(triples)
             movie == FindCandidate(candidates, rec.movieId)
         IN  <<Recommendation(IF movie # <<>> THEN movie[1]
                                  ELSE [movieId |-> rec.movieId], rec)>>
                 \o ReconcilePlaceholder(Tail(triples), candidates, n - 1)

\* parsed.recommendations.slice(0, n).forEach(...): the recommendations pushed
RECURSIVE Reconcile(_, _, _)
Reconcile(triples, candidates, n) ==
    IF triples = <<>> \/ n <= 0 THEN <<>>
    ELSE LET rec == Head(triples)
             movie == FindCandidate(candidates, rec.movieId)
             rest == Reconcile(Tail(triples), candidates, n - 1)
         IN  IF movie # <<>>
             THEN <<Recommendation(movie[1], rec)>> \o rest
             ELSE rest

\* A store enrichMovies leaves: a row for each movie of a set of rated
\* movies, built by enrichSingleMovie from a well-formed oracle answer.
ValidContent == Content("object", EnrichmentKeys, "High", 75, "dark")

EnrichedStore(ids) ==
    {enrichSingleMovie(EnrichmentInput(MovieById(id)), ValidContent) : id \in ids}

\* The movie fields play no part in getRecommendations: one catalog.
InitRec ==
    /\ catalog = CatalogB
    /\ ratings \in RatingSetsUpTo(MaxRecRatings)
    /\ tableExists \in BOOLEAN
    /\ store \in {EnrichedStore(ids) :
                    ids \in SUBSET {r.movieId : r \in ratings}}
    /\ tableExists \/ store = {}
    /\ InitEnrich
    /\ InitRecommend
    /\ InitAsk
    /\ InitFn
    /\ InitRoute
    /\ InitNoCrash

\* getRecommendations(uid, n) is called and runs analyzeUserPreferences up
\* to its oracle request: without ratings it throws before any request.
StartRecommend(uid, n) ==
    /\ rpc \in {"idle", "returned", "threw"}
    /\ userId' = uid
    /\ count' = n
    /\ prefContent' = NoPrefContent
    /\ preferences' = <<>>
    /\ candidateMovies' = <<>>
    /\ rankContent' = NoRankContent
    /\ recommendations' = <<>>
    /\ rankCalls' = 0
    /\ IF Cardinality(getRatingsByUserId(uid)) = 0
       THEN rpc' = "threw" /\ prefCalls' = 0
       ELSE rpc' = "prefOracle" /\ prefCalls' = 1
    /\ UNCHANGED <<dataVars, storeVars, enrichVars, askVars, fnVars, routeVars,
                   crashVars>>

\* getRatingsByUserId or getMoviesByIds rejects before the oracle request.
StartRecommendThrows(uid, n) ==
    /\ rpc \in {"idle", "returned", "threw"}
    /\ userId' = uid
    /\ count' = n
    /\ prefContent' = NoPrefContent
    /\ preferences' = <<>>
    /\ candidateMovies' = <<>>
    /\ rankContent' = NoRankContent
    /\ recommendations' = <<>>
    /\ prefCalls' = 0
    /\ rankCalls' = 0
    /\ rpc' = "threw"
    /\ UNCHANGED <<dataVars, storeVars, enrichVars, askVars, fnVars, routeVars,
                   crashVars>>

\* The preference request is rejected: the error leaves getRecommendations.
PrefOracleThrows ==
    /\ rpc = "prefOracle"
    /\ prefContent' = PrefError
    /\ rpc' = "threw"
    /\ UNCHANGED <<userId, count, preferences, candidateMovies, rankContent,
                   recommendations, prefCalls, rankCalls>>
    /\ UNCHANGED <<dataVars, storeVars, enrichVars, askVars, fnVars, routeVars,
                   crashVars>>

\* The preference oracle answers with text c.  analyzeUserPreferences
\* returns or throws; on return getRecommendations builds the candidates
\* and, unless there is none, asks the ranking oracle.  dbOk: the queries
\* getRatingsByUserId and getEnrichedMoviesWithDetails resolve; the join
\* rejects when table movie_enrichments does not exist.
PrefOracleResponds(c, dbOk) ==
    /\ rpc = "prefOracle"
    /\ prefContent' = c
    /\ IF ~PreferencesParse(c)
       THEN /\ rpc' = "threw"
            /\ UNCHANGED <<preferences, candidateMovies, rankCalls>>
       ELSE /\ preferences' = <<UserPreferences(userId, c)>>
            /\ IF ~tableExists \/ ~dbOk
               THEN /\ rpc' = "threw"
                    /\ UNCHANGED <<candidateMovies, rankCalls>>
               ELSE /\ candidateMovies' = CandidateMovies(userId)
                    /\ IF Len(candidateMovies') = 0
                       THEN rpc' = "threw" /\ UNCHANGED rankCalls
                       ELSE rpc' = "rankOracle" /\ rankCalls' = rankCalls + 1
    /\ UNCHANGED <<userId, count, rankContent, recommendations, prefCalls>>
    /\ UNCHANGED <<dataVars, storeVars, enrichVars, askVars, fnVars, routeVars,
                   crashVars>>

\* The ranking request is rejected.
RankOracleThrows ==
    /\ rpc = "rankOracle"
    /\ rpc' = "threw"
    /\ UNCHANGED <<userId, count, prefContent, preferences, candidateMovies,
                   rankContent, recommendations, prefCalls, rankCalls>>
    /\ UNCHANGED <<dataVars, storeVars, enrichVars, askVars, fnVars, routeVars,
                   crashVars>>

\* The ranking oracle answers with text c: the try block returns the
\* reconciled recommendations, or its catch throws.
RankOracleResponds(c) ==
    /\ rpc = "rankOracle"
    /\ rankContent' = c
    /\ IF RecommendationsParse(c)
       THEN /\ recommendations' = Reconcile(c.triples, candidateMovies, count)
            /\ rpc' = "returned"
       ELSE /\ rpc' = "threw"
            /\ UNCHANGED recommendations
    /\ UNCHANGED <<userId, count, prefContent, preferences, candidateMovies,
                   prefCalls, rankCalls>>
    /\ UNCHANGED <<dataVars, storeVars, enrichVars, askVars, fnVars, routeVars,
                   crashVars>>

NextRec ==
    \/ \E uid \in UserIds, n \in 1..MaxRecCount : StartRecommend(uid, n)
    \/ \E uid \in UserIds, n \in 1..MaxRecCount : StartRecommendThrows(uid, n)
    \/ PrefOracleThrows
    \/ \E c \in PrefContents, dbOk \in BOOLEAN : PrefOracleResponds(c, dbOk)
    \/ RankOracleThrows
    \/ \E c \in RankContents : RankOracleResponds(c)

SpecRec == InitRec /\ [][NextRec]_vars

----------------------------------------------------------------------------
(* Properties of getRecommendations *)

CandidateIds ==
    {candidateMovies[k].movieId : k \in 1..Len(candidateMovies)}

RatedBy(uid) ==
    {r.movieId : r \in {x \in ratings : x.userId = uid}}

EnrichedIds ==
    {r.movieId : r \in store}

\* The positions of the first n triples whose id is a candidate's.
MatchedPositions(triples, n) ==
    {j \in 1..Len(triples) : j <= n /\ triples[j].movieId \in CandidateIds}

\* C4: the list returned holds, in the oracle's order, one entry per triple
\* among the first `count` whose id is a candidate's, and each entry carries
\* the full candidate record of that id; a triple with any other id leaves no
\* entry and raises no error; the list has at most `count` entries.
C4_Reconciliation ==
    /\ rpc = "returned" =>
        LET triples == rankContent.triples
            matched == MatchedPositions(triples, count)
        IN  /\ Len(recommendations) <= count
            /\ Len(recommendations) = Cardinality(matched)
            /\ \A k \in 1..Len(recommendations) :
                   /\ \E c \in 1..Len(candidateMovies) :
                          recommendations[k].movie = candidateMovies[c]
                   /\ \E j \in matched :
                          /\ triples[j].movieId = recommendations[k].movie.movieId
                          /\ Cardinality({i \in matched : i <= j}) = k
    /\ rpc = "threw" /\ rankContent.kind = "object" => ~rankContent.hasRecommendations

C4_Witness ==
    /\ rpc = "returned"
    /\ Len(rankContent.triples) = 2
    /\ rankContent.triples[1].movieId = UnknownMovieId
    /\ rankContent.triples[2].movieId \in CandidateIds
    /\ count = 2
    /\ Len(recommendations) = 1

\* C5: no movie the user has rated is recommended to the user, whatever
\* ids the oracle names.
C5_NoRatedMovie ==
    /\ \A k \in 1..Len(recommendations) :
           recommendations[k].movie.movieId \notin RatedBy(userId)
    /\ CandidateIds \cap RatedBy(userId) = {}
    /\ rpc \in {"rankOracle", "returned"} =>
           CandidateIds = EnrichedIds \ RatedBy(userId)

C5_Witness ==
    /\ rpc = "returned"
    /\ Len(recommendations) = 1
    /\ \E j \in 1..Len(rankContent.triples) :
           rankContent.triples[j].movieId \in RatedBy(userId) \cap EnrichedIds

\* C6: a ranking answer that is a JSON array of triples makes
\* getRecommendations return the reconciled recommendations.
C6_ArrayAnswerAccepted ==
    rankContent.kind = "array" =>
        /\ rpc = "returned"
        /\ Len(recommendations) =
               Cardinality(MatchedPositions(rankContent.triples, count))

\* C10: without ratings of the user, with a failed preference derivation or
\* with no candidate left, getRecommendations throws and returns no list;
\* without ratings no oracle request is made, and without candidates no
\* ranking request.
C10_AllOrNothing ==
    /\ rpc # "idle" /\ RatedBy(userId) = {} =>
           rpc = "threw" /\ prefCalls = 0 /\ rankCalls = 0
    /\ prefContent.kind \in {"error", "text", "jsonnull"} =>
           rpc = "threw" /\ rankCalls = 0
    /\ rpc \notin {"idle", "prefOracle"} /\ EnrichedIds \ RatedBy(userId) = {} =>
           rpc = "threw" /\ rankCalls = 0
    /\ rpc = "threw" => recommendations = <<>>
    /\ rankCalls > 0 => preferences # <<>> /\ candidateMovies # <<>>

C10_Witness ==
    /\ rpc = "threw"
    /\ prefCalls = 1
    /\ rankCalls = 0
    /\ preferences # <<>>
    /\ store # {}
    /\ EnrichedIds \subseteq RatedBy(userId)

----------------------------------------------------------------------------
(* RecommendationService.naturalLanguageQuery and compareMovies *)

MaxCompareIds == 2
QueryContextSize == 100

\* s.slice(0, n)
SliceFirst(s, n) ==
    IF Len(s) <= n THEN s ELSE SubSeq(s, 1, n)

\* The object a prompt shows of an enriched movie (.map(m => ({...}))).
PromptMovie(m) ==
    [movieId |-> m.movieId, releaseDate |-> m.releaseDate,
     budget |-> m.budget, revenue |-> m.revenue,
     awardPotential |-> m.awardPotential,
     emotionalGenres |-> m.emotionalGenres,
     popularityQualityIndex |-> m.popularityQualityIndex,
     productionCompanyRollingROI |-> m.productionCompanyRollingROI,
     productionEffectivenessScore |-> m.productionEffectivenessScore]

PromptMovies(ms) ==
    [k \in 1..Len(ms) |-> PromptMovie(ms[k])]

\* enrichedMovies.slice(0, 100) of naturalLanguageQuery
QueryContext ==
    SliceFirst(getEnrichedMoviesWithDetails, QueryContextSize)

\* enrichedMovies.filter(m => movieIds.includes(m.movieId)) of compareMovies
CompareContext(ids) ==
    SelectSeq(getEnrichedMoviesWithDetails,
              LAMBDA m : \E i \in 1..Len(ids) : ids[i] = m.movieId)

\* The user message of the request.  Its text is fixed by the operation, the
\* query, the movies shown, the user context block ('' is <<>>) and, in
\* compareMovies, by item 7 of the list, present when userId is truthy.
Prompt(o, q, ms, uctx, uid) ==
    [op |-> o, query |-> q, movies |-> PromptMovies(ms), userContext |-> uctx,
     personalItem |-> (o = "compare" /\ uid # NoUser)]

\* message.content of the request: "null" (no or empty completion), "text"
\* (JSON.parse throws) or "json".
AskContents == {"null", "text", "json"}

MovieIdLists ==
    UNION {[1..n -> MovieIds] : n \in 0..MaxCompareIds}

\* The call's arguments are taken and its results reset.
AskBegin(o, q, ids, uid) ==
    /\ apc \in {"idle", "returned", "threw"}
    /\ op' = o
    /\ query' = q
    /\ movieIds' = ids
    /\ askUserId' = uid
    /\ askPrefContent' = NoPrefContent
    /\ askResult' = <<>>
    /\ userContext' = <<>>

\* The call throws before any request.
AskThrows(msg) ==
    /\ apc' = "threw"
    /\ error' = msg
    /\ context' = <<>>
    /\ request' = <<>>
    /\ prefFailed' = FALSE
    /\ askCalls' = 0
    /\ askPrefCalls' = 0

\* The prompt is built with user context uctx and the request is sent.
SendRequest(o, q, ms, uctx, uid) ==
    /\ request' = <<Prompt(o, q, ms, uctx, uid)>>
    /\ askCalls' = 1
    /\ apc' = "askOracle"

\* if (userId) { try { await this.analyzeUserPreferences(userId) ... } catch {} }
\* up to the preference request, or to the request proper when there is
\* none.  prefDbOk: the queries of analyzeUserPreferences resolve.
Personalize(o, q, ms, uid, prefDbOk) ==
    /\ context' = ms
    /\ error' = ""
    /\ IF uid = NoUser
       THEN /\ prefFailed' = FALSE
            /\ askPrefCalls' = 0
            /\ SendRequest(o, q, ms, <<>>, uid)
       ELSE IF ~prefDbOk \/ Cardinality(getRatingsByUserId(uid)) = 0
       THEN /\ prefFailed' = TRUE
            /\ askPrefCalls' = 0
            /\ SendRequest(o, q, ms, <<>>, uid)
       ELSE /\ prefFailed' = FALSE
            /\ askPrefCalls' = 1
            /\ askCalls' = 0
            /\ request' = <<>>
            /\ apc' = "askPref"

\* naturalLanguageQuery(q, uid) is called.  dbOk: getEnrichedMoviesWithDetails
\* resolves; it rejects when table movie_enrichments does not exist.
StartQuery(q, uid, dbOk, prefDbOk) ==
    /\ AskBegin("query", q, <<>>, uid)
    /\ IF ~tableExists \/ ~dbOk
       THEN AskThrows("query rejected")
       ELSE Personalize("query", q, QueryContext, uid, prefDbOk)
    /\ UNCHANGED <<dataVars, storeVars, enrichVars, recVars, fnVars, routeVars,
                   crashVars>>

\* compareMovies(ids, uid) is called.
StartCompare(ids, uid, dbOk, prefDbOk) ==
    /\ AskBegin("compare", "", ids, uid)
    /\ IF Len(ids) < 2
       THEN AskThrows("At least 2 movies are required for comparison")
       ELSE IF ~tableExists \/ ~dbOk
       THEN AskThrows("query rejected")
       ELSE LET ms == CompareContext(ids)
            IN  IF Len(ms) # Len(ids)
                THEN AskThrows("Some movies not found or not enriched")
                ELSE Personalize("compare", "", ms, uid, prefDbOk)
    /\ UNCHANGED <<dataVars, storeVars, enrichVars, recVars, fnVars, routeVars,
                   crashVars>>

\* The preference request is rejected: the catch block leaves userContext ''.
AskPrefThrows ==
    /\ apc = "askPref"
    /\ askPrefContent' = PrefError
    /\ prefFailed' = TRUE
    /\ SendRequest(op, query, context, <<>>, askUserId)
    /\ UNCHANGED <<op, query, movieIds, askUserId, context, userContext,
                   askResult, error, askPrefCalls>>
    /\ UNCHANGED <<dataVars, storeVars, enrichVars, recVars, fnVars, routeVars,
                   crashVars>>

\* The preference oracle answers with text c: analyzeUserPreferences returns
\* the preferences, or throws into the catch block.
AskPrefResponds(c) ==
    /\ apc = "askPref"
    /\ askPrefContent' = c
    /\ prefFailed' = ~PreferencesParse(c)
    /\ userContext' = IF PreferencesParse(c)
                      THEN <<UserPreferences(askUserId, c)>> ELSE <<>>
    /\ SendRequest(op, query, context, userContext', askUserId)
    /\ UNCHANGED <<op, query, movieIds, askUserId, context, askResult, error,
                   askPrefCalls>>
    /\ UNCHANGED <<dataVars, storeVars, enrichVars, recVars, fnVars, routeVars,
                   crashVars>>

\* A handler that empties table movie_enrichments when its request fails.
AskOracleThrowsClearing ==
    /\ apc = "askOracle"
    /\ apc' = "threw"
    /\ error' = "request rejected"
    /\ store' = {}
    /\ UNCHANGED <<op, query, movieIds, askUserId, context, userContext, request,
                   askPrefContent, askResult, prefFailed, askCalls, askPrefCalls>>
    /\ UNCHANGED <<dataVars, tableExists, enrichVars, recVars, fnVars, routeVars,
                   crashVars>>

\* openai.chat.completions.create rejects, or the response has no choice.
AskOracleThrows ==
    /\ apc = "askOracle"
    /\ apc' = "threw"
    /\ error' = "request rejected"
    /\ UNCHANGED <<op, query, movieIds, askUserId, context, userContext, request,
                   askPrefContent, askResult, prefFailed, askCalls, askPrefCalls>>
    /\ UNCHANGED <<dataVars, storeVars, enrichVars, recVars, fnVars, routeVars,
                   crashVars>>

\* The oracle answers with a text of kind c.  naturalLanguageQuery returns
\* the parsed value or { response: content }; compareMovies returns the
\* parsed value ('{}' for no completion) or throws.
AskOracleResponds(c) ==
    /\ apc = "askOracle"
    /\ IF op = "query"
       THEN /\ askResult' = IF c = "json" THEN <<[parsed |-> c]>>
                            ELSE <<[response |-> c]>>
            /\ apc' = "returned"
            /\ UNCHANGED error
       ELSE IF c = "text"
       THEN /\ apc' = "threw"
            /\ error' = "Failed to compare movies"
            /\ UNCHANGED askResult
       ELSE /\ askResult' = <<[parsed |-> c]>>
            /\ apc' = "returned"
            /\ UNCHANGED error
    /\ UNCHANGED <<op, query, movieIds, askUserId, context, userContext, request,
                   askPrefContent, prefFailed, askCalls, askPrefCalls>>
    /\ UNCHANGED <<dataVars, storeVars, enrichVars, recVars, fnVars, routeVars,
                   crashVars>>

MaxAskRatings == 2

InitAskStore ==
    /\ catalog = CatalogB
    /\ ratings \in RatingSetsUpTo(MaxAskRatings)
    /\ tableExists \in BOOLEAN
    /\ store \in {EnrichedStore(ids) :
                    ids \in SUBSET {r.movieId : r \in ratings}}
    /\ tableExists \/ store = {}
    /\ InitEnrich
    /\ InitRecommend
    /\ InitAsk
    /\ InitFn
    /\ InitRoute
    /\ InitNoCrash

NextAsk ==
    \/ \E q \in {"best dramas"}, uid \in {NoUser} \cup UserIds, dbOk, prefDbOk \in BOOLEAN :
           StartQuery(q, uid, dbOk, prefDbOk)
    \/ \E ids \in MovieIdLists, uid \in {NoUser} \cup UserIds,
          dbOk, prefDbOk \in BOOLEAN :
           StartCompare(ids, uid, dbOk, prefDbOk)
    \/ AskPrefThrows
    \/ \E c \in PrefContents : AskPrefResponds(c)
    \/ AskOracleThrows
    \/ \E c \in AskContents : AskOracleResponds(c)

SpecAsk == InitAskStore /\ [][NextAsk]_vars

----------------------------------------------------------------------------
(* Properties of naturalLanguageQuery and compareMovies *)

\* C11: when the preference derivation of a call with a userId fails, the
\* call goes on to the oracle, the request it sends is the one the same
\* query or movie ids produce without a userId, and the error that ends the
\* call, if any, is not the derivation's.
C11_PreferenceFailureAbsorbed ==
    prefFailed =>
        /\ askCalls = 1
        /\ request = <<Prompt(op, query, context, <<>>, NoUser)>>
        /\ apc = "threw" => error \in {"request rejected", "Failed to compare movies"}

RequestedIds ==
    {movieIds[i] : i \in 1..Len(movieIds)}

\* C12: compareMovies called with at least 2 ids that all have an enrichment
\* goes on to the oracle, showing exactly the enriched records of the
\* requested ids (unless a query is rejected); called with fewer than 2 ids
\* or with an id that has no enrichment it throws before any request.
C12_CompareContext ==
    op = "compare" =>
        IF Len(movieIds) >= 2 /\ RequestedIds \subseteq EnrichedIds
        THEN /\ error \notin {"At least 2 movies are required for comparison",
                             "Some movies not found or not enriched"}
             /\ error # "query rejected" =>
                  /\ {context[k].movieId : k \in 1..Len(context)} = RequestedIds
                  /\ \A k \in 1..Len(context) :
                         \E j \in 1..Len(getEnrichedMoviesWithDetails) :
                             context[k] = getEnrichedMoviesWithDetails[j]
                  /\ apc \in {"askOracle", "returned"} =>
                         request[1].movies = PromptMovies(context)
        ELSE /\ apc = "threw"
             /\ askCalls = 0
             /\ askPrefCalls = 0
             /\ request = <<>>

----------------------------------------------------------------------------
(* POST /api/enrich *)

MinEnrichCount == 1
MaxEnrichCount == 200
MaxRouteRatings == 2

NumberCount(n) ==
    [type |-> "number", val |-> n, chars |-> <<>>]

StringCount(s) ==
    [type |-> "string", val |-> 0, chars |-> s]

\* The default of req.body.count || '75'
DefaultCount == <<"7", "5">>

Digits == <<"0", "1", "2", "3", "4", "5", "6", "7", "8", "9">>

IsDigit(c) ==
    \E d \in 1..10 : Digits[d] = c

DigitOf(c) ==
    (CHOOSE d \in 1..10 : Digits[d] = c) - 1

\* String(n) of a non-negative integer
RECURSIVE DigitsOf(_)
DigitsOf(n) ==
    IF n < 10 THEN <<Digits[n + 1]>>
    ELSE Append(DigitsOf(n \div 10), Digits[(n % 10) + 1])

\* String(n) of an integer
ToChars(n) ==
    IF n < 0 THEN <<"-">> \o DigitsOf(-n) ELSE DigitsOf(n)

RECURSIVE SkipSpaces(_)
SkipSpaces(s) ==
    IF s # <<>> /\ Head(s) = " " THEN SkipSpaces(Tail(s)) ELSE s

\* The longest prefix of digits of s, as a number; any: it is not empty.
RECURSIVE DigitPrefix(_, _, _)
DigitPrefix(s, acc, any) ==
    IF s = <<>> \/ ~IsDigit(Head(s)) THEN [any |-> any, val |-> acc]
    ELSE DigitPrefix(Tail(s), acc * 10 + DigitOf(Head(s)), TRUE)

\* parseInt(s, 10): leading blanks, a sign, then digits up to the first
\* character that is none; NaN without a digit.
parseInt(s) ==
    LET t == SkipSpaces(s)
        signed == t # <<>> /\ Head(t) \in {"-", "+"}
        p == DigitPrefix(IF signed THEN Tail(t) ELSE t, 0, FALSE)
    IN  IF ~p.any THEN NaN
        ELSE IF signed /\ Head(t) = "-" THEN Integer(-p.val)
        ELSE Integer(p.val)

\* b || '75', converted to the string parseInt works on
CountOrDefault(b) ==
    IF b.type = "undefined" THEN DefaultCount
    ELSE IF b.type = "number"
    THEN IF b.val = 0 THEN DefaultCount ELSE ToChars(b.val)
    ELSE IF b.chars = <<>> THEN DefaultCount ELSE b.chars

Bodies ==
    {NoCount}
    \cup {NumberCount(n) : n \in {-1, 0, 1, 2, 200, 201}}
    \cup {StringCount(s) : s \in { <<>>, <<"2">>, <<"a", "b", "c">>,
                                   <<"2", "a">>, <<" ", "1">>, <<"-", "1">>,
                                   <<"2", ".", "5">>, <<"2", "0", "1">> }}

\* router.post('/enrich'): the count is parsed and checked, then
\* enrichMovies(count) is awaited.
PostEnrich(b) ==
    /\ status # "pending"
    /\ body' = b
    /\ LET n == parseInt(CountOrDefault(b))
       IN  IF \/ LessThan(n, Integer(MinEnrichCount))
              \/ GreaterThan(n, Integer(MaxEnrichCount))
           THEN /\ status' = "400"
                /\ UNCHANGED enrichVars
           ELSE /\ status' = "pending"
                /\ BeginRun(n)
    /\ UNCHANGED <<dataVars, storeVars, recVars, askVars, fnVars,
                   crashVars>>

\* enrichMovies has returned (res.json) or thrown (catch: status 500).
RouteResponds ==
    /\ status = "pending"
    /\ pc \in {"done", "threw"}
    /\ status' = IF pc = "done" THEN "200" ELSE "500"
    /\ UNCHANGED body
    /\ UNCHANGED <<dataVars, storeVars, enrichVars, recVars, askVars, fnVars,
                   crashVars>>

InitRouteRun ==
    /\ catalog = CatalogB
    /\ ratings \in RatingSetsUpTo(MaxRouteRatings)
    /\ tableExists = FALSE
    /\ store = {}
    /\ InitEnrich
    /\ InitRecommend
    /\ InitAsk
    /\ InitFn
    /\ InitRoute
    /\ InitNoCrash

NextRoute ==
    \/ \E b \in Bodies : PostEnrich(b)
    \/ RouteResponds
    \/ Select
    \/ SelectThrows
    \/ InitTable
    \/ InitTableThrows
    \/ ItemStart
    \/ LookupThrows
    \/ OracleThrows
    \/ OracleResponds(ValidContent)
    \/ SaveEnrichment
    \/ SaveThrows
    \/ DelayDone
    \/ Return

SpecRoute == InitRouteRun /\ [][NextRoute]_vars

\* The request's count is an integer within [1, 200] (a JSON number, or a
\* string that is its decimal numeral).
IsCountInRange(b) ==
    \/ b.type = "number" /\ b.val \in MinEnrichCount..MaxEnrichCount
    \/ /\ b.type = "string"
       /\ \E n \in MinEnrichCount..MaxEnrichCount : b.chars = ToChars(n)

\* C13: while POST /enrich runs enrichMovies, movieCount is an integer
\* within [1, 200]; a request whose count is given and is no such integer
\* is answered 400 and starts no run.
C13_CountValidated ==
    /\ status = "pending" =>
           ~movieCount.isNaN /\ movieCount.val \in MinEnrichCount..MaxEnrichCount
    /\ body # NoCount /\ ~IsCountInRange(body) =>
           status = "400" /\ pc # "selecting"

----------------------------------------------------------------------------
(* calculateProductionEffectiveness on its own *)

\* The ratings from 0 to 5 in steps of 1 / RatingSteps
RatingSteps == 2

\* The movies and average ratings the function is applied to
EffectivenessArgs ==
    {[movie |-> Movie(1, NoCompanies, 1, b, r),
      avgRating |-> Rat(k, RatingSteps)] :
        b \in {-100, 0, 100, 1000000000},
        r \in {-5, 0, 1, 50, 150, 1000, 1000000000, 2000000000},
        k \in 0..(5 * RatingSteps)}

InitEffectiveness ==
    /\ catalog = CatalogB
    /\ ratings = {}
    /\ tableExists = FALSE
    /\ store = {}
    /\ InitEnrich
    /\ InitRecommend
    /\ InitAsk
    /\ InitRoute
    /\ InitNoCrash
    /\ fnArgs \in EffectivenessArgs
    /\ fnResult = <<>>

\* this.calculateProductionEffectiveness(movie, avgRating)
ApplyEffectiveness ==
    /\ fnResult = <<>>
    /\ fnResult' = <<calculateProductionEffectiveness(fnArgs.movie, fnArgs.avgRating)>>
    /\ UNCHANGED fnArgs
    /\ UNCHANGED <<dataVars, storeVars, enrichVars, recVars, askVars, routeVars,
                   crashVars>>

SpecEffectiveness == InitEffectiveness /\ [][ApplyEffectiveness]_vars

InPercentRange(r) ==
    ~RatLess(r, <<0, 1>>) /\ ~RatLess(<<100, 1>>, r)

\* |a - b| <= 1/200
WithinHalfCent(a, b) ==
    LET d == RatAdd(a, RatMul(b, <<-1, 1>>))
    IN  ~RatLess(<<1, 200>>, d) /\ ~RatLess(d, <<-1, 200>>)

----------------------------------------------------------------------------
(* Properties of the order, the selection and the pacing of a run *)

Min(a, b) ==
    IF a < b THEN a ELSE b

\* The ids of the rows the run has written.
WrittenIds ==
    {written[j].movieId : j \in 1..Len(written)}

\* C15: the iterations of a run begin in selection order, one per selected
\* movie and never twice; an iteration begins only when every earlier one
\* has failed or has had its row written; and at any time at most one oracle
\* request and one write of the run are in flight, never both.
C15_Sequential ==
    /\ started = [k \in 1..Len(started) |-> k]
    /\ Len(started) <= Len(movies)
    /\ pc \in {"oracle", "save", "delay"} => Len(started) = idx
    /\ pc = "loop" => Len(started) = idx - 1
    /\ pc = "done" => Len(started) = Len(movies)
    /\ \A k \in 1..(Len(started) - 1) :
           (k \in failed) # (movies[k].movieId \in WrittenIds)
    /\ Len(input) + Len(pending) <= 1
    /\ input # <<>> <=> pc = "oracle"
    /\ pending # <<>> <=> pc = "save"
    /\ input # <<>> => input[1].movie = movies[idx]
    /\ pending # <<>> => pending[1].movieId = movies[idx].movieId

C15_Witness ==
    /\ pc = "done"
    /\ started = <<1, 2>>
    /\ failed = {1}
    /\ Len(written) = 1

RatedPositions ==
    {k \in 1..Len(catalog) : IsRated(catalog[k].movieId)}

\* The catalog position of the n-th rated movie.
RatedPosition(n) ==
    CHOOSE k \in RatedPositions :
        Cardinality({j \in RatedPositions : j < k}) = n - 1

\* C16: the selection of a run with limit movieCount is the first
\* min(limit, number of rated movies) rated movies of the catalog in catalog
\* order, never more than limit, and the scan looks at no movie behind the
\* limit-th rated one.
C16_LinearScan ==
    pc \in {"initTable", "loop", "oracle", "save", "delay", "done"} =>
        LET limit == movieCount.val
            rated == Cardinality(RatedPositions)
        IN  /\ Len(movies) = Min(limit, rated)
            /\ Len(movies) <= limit
            /\ \A i \in 1..Len(movies) : movies[i] = catalog[RatedPosition(i)]
            /\ scanned = IF limit = 0 THEN 0
                         ELSE IF rated >= limit THEN RatedPosition(limit)
                         ELSE Len(catalog)

C16_Witness ==
    /\ pc = "done"
    /\ movieCount = Integer(1)
    /\ Cardinality(RatedPositions) = 2
    /\ ~IsRated(catalog[1].movieId)
    /\ Len(movies) = 1
    /\ scanned = 2

DelayIndices ==
    {delays[j].after : j \in 1..Len(delays)}

\* C18: every suspension of a run lasts 500 ms and follows an item that
\* was persisted and is not the last of the selection; an item that follows
\* a persisted one starts only after that suspension; no suspension follows
\* the last item, so that a finished run has had exactly one suspension per
\* persisted item other than the last.
C18_Pacing ==
    /\ \A j \in 1..Len(delays) :
           /\ delays[j].ms = 500
           /\ delays[j].after < Len(movies)
           /\ delays[j].after \notin failed
           /\ movies[delays[j].after].movieId \in WrittenIds
           /\ \A i \in 1..(j - 1) : delays[i].after < delays[j].after
    /\ \A k \in 2..Len(started) :
           (started[k] - 1) \notin failed => (started[k] - 1) \in DelayIndices
    /\ pc = "delay" => idx < Len(movies)
    /\ pc = "done" =>
           DelayIndices = {k \in 1..(Len(movies) - 1) : k \notin failed}

C18_Witness ==
    /\ pc = "done"
    /\ Len(movies) = 2
    /\ failed = {2}
    /\ delays = <<[after |-> 1, ms |-> 500]>>

----------------------------------------------------------------------------
(* getRecommendations over more candidates than the ranking prompt shows *)

PromptCandidates == 50
CapCatalogLen == 52

CapCatalog ==
    [k \in 1..CapCatalogLen |-> Movie(k, NoCompanies, k, 100, 150)]

\* candidateMovies.slice(0, 50): the candidates the ranking prompt lists
RankingPromptMovies(candidates) ==
    SliceFirst(candidates, PromptCandidates)

\* Every movie is rated by user 2; user 1 has rated some of the first two.
CapRatingSets ==
    {{[userId |-> 2, movieId |-> m, rating |-> 3] : m \in 1..CapCatalogLen}
        \cup {[userId |-> 1, movieId |-> m, rating |-> 5] : m \in seen} :
     seen \in SUBSET {1, 2}}

CapRankContents ==
    { RankContent("text", FALSE, <<>>) }
    \cup {RankContent("object", TRUE, t) :
            t \in UNION {[1..n ->
                            {[movieId |-> m, score |-> 95, reasoning |-> "fits"] :
                                m \in {2, PromptCandidates, CapCatalogLen,
                                       UnknownMovieId}}] :
                          n \in 0..MaxTriples}}

InitCap ==
    /\ catalog = CapCatalog
    /\ ratings \in CapRatingSets
    /\ tableExists = TRUE
    /\ store = EnrichedStore(1..CapCatalogLen)
    /\ InitEnrich
    /\ InitRecommend
    /\ InitAsk
    /\ InitFn
    /\ InitRoute
    /\ InitNoCrash

NextCap ==
    \/ \E n \in 1..MaxRecCount : StartRecommend(1, n)
    \/ \E n \in 1..MaxRecCount : StartRecommendThrows(1, n)
    \/ PrefOracleThrows
    \/ \E c \in {x \in PrefContents : x.kind = "object"}, dbOk \in BOOLEAN :
           PrefOracleResponds(c, dbOk)
    \/ RankOracleThrows
    \/ \E c \in CapRankContents : RankOracleResponds(c)

SpecCap == InitCap /\ [][NextCap]_vars

\* C17: the ranking prompt lists at most the first 50 candidates, and every
\* movie of the list getRecommendations returns is one of those.
C17_HardCap ==
    /\ Len(RankingPromptMovies(candidateMovies)) <= 50
    /\ \A k \in 1..Len(RankingPromptMovies(candidateMovies)) :
           RankingPromptMovies(candidateMovies)[k] = candidateMovies[k]
    /\ rpc = "returned" =>
           \A k \in 1..Len(recommendations) :
               \E j \in 1..Len(RankingPromptMovies(candidateMovies)) :
                   recommendations[k].movie = candidateMovies[j]

----------------------------------------------------------------------------
(* calculateCompanyROI on its own, over catalogs longer than the window *)

ROIPriorCount == 12

\* Movie k of company Acme, released at date k, for k up to ROIPriorCount:
\* its ROI is 40 + 10 k percent unless it is one of noBudget (budget 0) or
\* of noRevenue (revenue 0). Then a movie whose first named company is Acme
\* and that shares the last one's date, a movie of another company and an
\* Acme movie without release date.
ROICatalog(noBudget, noRevenue) ==
    [k \in 1..ROIPriorCount |->
        Movie(k, Companies(<<"Acme">>), k,
              IF k \in noBudget THEN 0 ELSE 100,
              IF k \in noRevenue THEN 0 ELSE 140 + 10 * k)]
    \o << Movie(ROIPriorCount + 1, Companies(<<"", "Acme", "Other">>),
                ROIPriorCount, 100, 150),
          Movie(ROIPriorCount + 2, Companies(<<"Other">>), 1, 100, 1000),
          Movie(ROIPriorCount + 3, Companies(<<"Acme">>), 0, 100, 1000) >>

Reverse(s) ==
    [k \in 1..Len(s) |-> s[Len(s) + 1 - k]]

ROICatalogs ==
    {ROICatalog(noBudget, noRevenue) :
        noBudget \in SUBSET {1, 3}, noRevenue \in SUBSET {2, ROIPriorCount - 1}}
    \cup {Reverse(ROICatalog(noBudget, noRevenue)) :
        noBudget \in SUBSET {1, 3}, noRevenue \in SUBSET {2, ROIPriorCount - 1}}

InitROI ==
    /\ catalog \in ROICatalogs
    /\ ratings = {}
    /\ tableExists = FALSE
    /\ store = {}
    /\ InitEnrich
    /\ InitRecommend
    /\ InitAsk
    /\ InitRoute
    /\ InitNoCrash
    /\ fnArgs \in {[movie |-> catalog[t]] : t \in 1..Len(catalog)}
    /\ fnResult = <<>>

\* await this.calculateCompanyROI(movie)
ApplyCompanyROI ==
    /\ fnResult = <<>>
    /\ fnResult' = <<calculateCompanyROI(fnArgs.movie, catalog)>>
    /\ UNCHANGED fnArgs
    /\ UNCHANGED <<dataVars, storeVars, enrichVars, recVars, askVars, routeVars,
                   crashVars>>

SpecROI == InitROI /\ [][ApplyCompanyROI]_vars

\* The first named company of movie m, "" when it has none.
PrimaryCompany(m) ==
    LET names == m.productionCompanies.names
    IN  IF m.productionCompanies.kind = "list" /\ \E i \in 1..Len(names) : names[i] # ""
        THEN names[CHOOSE i \in 1..Len(names) :
                     names[i] # "" /\ \A j \in 1..(i - 1) : names[j] = ""]
        ELSE ""

\* The catalog positions of the movies of company c released before m.
EarlierOfCompany(m, c) ==
    {k \in 1..Len(catalog) :
        /\ catalog[k].productionCompanies.kind = "list"
        /\ \E i \in 1..Len(catalog[k].productionCompanies.names) :
               catalog[k].productionCompanies.names[i] = c
        /\ catalog[k].releaseDate # 0
        /\ catalog[k].releaseDate < m.releaseDate}

\* Of a set of catalog positions, the n released latest.
Latest(ks, n) ==
    {k \in ks :
        Cardinality({j \in ks : catalog[j].releaseDate > catalog[k].releaseDate}) < n}

RECURSIVE SumPercent(_)
SumPercent(ks) ==
    IF ks = {} THEN <<0, 1>>
    ELSE LET k == CHOOSE x \in ks : TRUE
         IN  RatAdd(Rat((catalog[k].revenue - catalog[k].budget) * 100,
                        catalog[k].budget),
                    SumPercent(ks \ {k}))

\* C19: for a movie with a primary company the rolling ROI is the mean of
\* (revenue - budget) / budget * 100 over those of the 10 latest catalog
\* movies of that company released strictly before it that have positive
\* budget and revenue (null when there is none); the movie itself and
\* movies of its date are not in the window, the others of the window are
\* left out of the mean, and one prior movie of budget 100 and revenue 150
\* gives 50.
C19_RollingWindow ==
    fnResult # <<>> /\ PrimaryCompany(fnArgs.movie) # "" =>
        LET m == fnArgs.movie
            window == Latest(EarlierOfCompany(m, PrimaryCompany(m)), 10)
            valid == {k \in window : catalog[k].budget > 0 /\ catalog[k].revenue > 0}
        IN  /\ Cardinality(window) <= 10
            /\ \A k \in window : catalog[k].releaseDate < m.releaseDate
            /\ fnResult[1] = IF valid = {} THEN Null
                              ELSE Num(RatMul(SumPercent(valid),
                                              <<1, Cardinality(valid)>>))
            /\ (/\ Cardinality(window) = 1
                /\ \A k \in window : catalog[k].budget = 100 /\ catalog[k].revenue = 150)
                   => fnResult[1] = Num(<<50, 1>>)

C19_Witness ==
    /\ fnResult # <<>>
    /\ fnArgs.movie.movieId = ROIPriorCount + 1
    /\ catalog[1].movieId # 1
    /\ Cardinality(EarlierOfCompany(fnArgs.movie, "Acme")) > 10
    /\ \E k \in Latest(EarlierOfCompany(fnArgs.movie, "Acme"), 10) :
           catalog[k].budget = 0
    /\ ~fnResult[1].isNull

----------------------------------------------------------------------------
(* Runs repeated after a crash of the process, with a repeatable oracle *)

MaxCrashes == 1

\* Two oracles: one answers well-formed for every movie, the other with
\* text, without completion or out of range for some.
Oracles ==
    { [m \in MovieIds |-> ValidContent],
      [m \in MovieIds |->
          IF m = 1 THEN Content("text", {}, "", 0, "")
          ELSE IF m = 2
          THEN Content("object", {"awardPotential", "popularityQualityIndex"},
                       "Maybe", 150, "")
          ELSE Content("null", {}, "", 0, "")] }

InitCrash ==
    /\ catalog = CatalogB
    /\ ratings \in RatingSetsUpTo(MaxRatings)
    /\ tableExists = FALSE
    /\ store = {}
    /\ InitEnrich
    /\ InitRecommend
    /\ InitAsk
    /\ InitFn
    /\ InitRoute
    /\ oracle \in Oracles
    /\ batch \in 1..MaxCount
    /\ crashes = <<>>

\* enrichMovies(batch) is called, for the first time or again.
Restart ==
    /\ BeginRun(Integer(batch))
    /\ UNCHANGED <<dataVars, storeVars, recVars, askVars, fnVars, routeVars,
                   crashVars>>

\* The oracle answers for the movie of the item as it does every time.
OracleAnswers ==
    /\ pc = "oracle"
    /\ OracleResponds(oracle[input[1].movie.movieId])

\* The process dies during a run: its locals are lost, the statements
\* that have resolved stay committed.
Crash ==
    /\ pc \in {"selecting", "initTable", "loop", "oracle", "save", "delay"}
    /\ Len(crashes) < MaxCrashes
    /\ crashes' = Append(crashes, written)
    /\ pc' = "idle"
    /\ movieCount' = Integer(0)
    /\ movies' = <<>>
    /\ idx' = 0
    /\ input' = <<>>
    /\ pending' = <<>>
    /\ content' = NoContent
    /\ enrichments' = <<>>
    /\ failed' = {}
    /\ written' = <<>>
    /\ scanned' = 0
    /\ started' = <<>>
    /\ delays' = <<>>
    /\ UNCHANGED <<lastSaved, overwrote, oracle, batch>>
    /\ UNCHANGED <<dataVars, storeVars, recVars, askVars, fnVars, routeVars>>

NextCrash ==
    \/ Restart
    \/ Select
    \/ SelectThrows
    \/ InitTable
    \/ InitTableThrows
    \/ ItemStart
    \/ LookupThrows
    \/ OracleThrows
    \/ OracleAnswers
    \/ SaveEnrichment
    \/ SaveThrows
    \/ DelayDone
    \/ Return
    \/ Crash

SpecCrash == InitCrash /\ [][NextCrash]_vars

EnrichmentFields ==
    {"movieId", "awardPotential", "popularityQualityIndex", "emotionalGenres",
     "productionCompanyRollingROI", "productionEffectivenessScore"}

\* The store one uninterrupted run without failing item leaves.
UninterruptedStore ==
    LET selection == selectMoviesWithRatings(Integer(batch))
    IN  {enrichSingleMovie(EnrichmentInput(selection[k]),
                           oracle[selection[k].movieId]) :
            k \in 1..Len(selection)}

\* C20: whatever runs crashed before, every row of the store is the
\* complete Enrichment record of one movie of the batch, and a run that
\* then completes without failing item leaves the store a single
\* uninterrupted run leaves.
C20_CrashIdempotent ==
    /\ \A r \in store :
           /\ DOMAIN r = EnrichmentFields
           /\ r \in UninterruptedStore
    /\ \A id \in MovieIds : Cardinality(RowsOf(store, id)) <= 1
    /\ pc = "done" /\ failed = {} => store = UninterruptedStore

C20_Witness ==
    /\ pc = "done"
    /\ failed = {}
    /\ Len(crashes) = 1
    /\ Len(crashes[1]) = 1
    /\ Cardinality(store) = 2
    /\ oracle[1] # ValidContent

----------------------------------------------------------------------------
(* The enrichment script and the request handlers side by side over one
   database: the script is a process of its own, and a handler suspended at
   an await lets another one run *)

MaxFrameCount == 2

\* User 1 has rated movie 1 and user 2 movie 2: once both are enriched, each
\* is a candidate for the other user.
FrameRatings ==
    {[userId |-> u, movieId |-> u, rating |-> RatingValue(u, u)] : u \in UserIds}

InitFrame ==
    /\ catalog = CatalogB
    /\ ratings = FrameRatings
    /\ tableExists = FALSE
    /\ store = {}
    /\ InitEnrich
    /\ InitRecommend
    /\ InitAsk
    /\ InitFn
    /\ InitRoute
    /\ InitNoCrash

NextFrame ==
    \/ \E n \in 1..MaxFrameCount : StartRun(Integer(n))
    \/ Select
    \/ SelectThrows
    \/ InitTable
    \/ InitTableThrows
    \/ ItemStart
    \/ LookupThrows
    \/ OracleThrows
    \/ OracleResponds(ValidContent)
    \/ SaveEnrichment
    \/ SaveThrows
    \/ DelayDone
    \/ Return
    \/ StartRecommend(1, 1)
    \/ StartRecommendThrows(1, 1)
    \/ PrefOracleThrows
    \/ \E c \in {PrefContent("text", {}, <<>>, <<>>, "", ""),
                 PrefContent("object", {"favoriteGenres"}, <<"Drama">>, <<>>, "", "")},
          dbOk \in BOOLEAN : PrefOracleResponds(c, dbOk)
    \/ RankOracleThrows
    \/ \E c \in {RankContent("text", FALSE, <<>>),
                 RankContent("object", TRUE,
                             <<[movieId |-> 2, score |-> 95, reasoning |-> "fits"]>>)} :
           RankOracleResponds(c)
    \/ \E uid \in {NoUser, 1}, dbOk \in BOOLEAN :
           StartQuery("best dramas", uid, dbOk, TRUE)
    \/ \E ids \in {<<1>>, <<1, 2>>}, prefDbOk \in BOOLEAN :
           StartCompare(ids, 1, TRUE, prefDbOk)
    \/ AskPrefThrows
    \/ \E c \in {PrefContent("text", {}, <<>>, <<>>, "", ""),
                 PrefContent("object", {"favoriteGenres"}, <<"Drama">>, <<>>, "", "")} :
           AskPrefResponds(c)
    \/ AskOracleThrows
    \/ \E c \in {"text", "json"} : AskOracleResponds(c)

SpecFrame == InitFrame /\ [][NextFrame]_vars

\* C21: no step changes the movie catalog or the ratings; a step of
\* getRecommendations (analyzeUserPreferences included), of
\* naturalLanguageQuery or of compareMovies, returning or throwing, changes
\* neither table movie_enrichments nor its existence, so that only steps of
\* enrichMovies change the store; the rows of the store carry the enrichment
\* fields and nothing else, and the UserPreferences of a call are empty when
\* the call starts and come only from the oracle answer to its own request.
C21_Frame ==
    [][ /\ catalog' = catalog
        /\ ratings' = ratings
        /\ (recVars' # recVars \/ askVars' # askVars) =>
               tableExists' = tableExists /\ store' = store
        /\ <<tableExists, store>>' # <<tableExists, store>> =>
               enrichVars' # enrichVars
        /\ \A r \in store' : DOMAIN r = EnrichmentFields
        /\ preferences' # preferences =>
               preferences' = <<>> \/ (rpc = "prefOracle" /\ prefCalls = 1)
        /\ userContext' # userContext =>
               userContext' = <<>> \/ (apc = "askPref" /\ askPrefCalls = 1)
      ]_vars

\* A run with a failed item has written a row, a getRecommendations call has
\* returned with derived preferences and a compareMovies call has thrown
\* after its request.
C21_Witness ==
    /\ pc = "done"
    /\ failed # {}
    /\ store # {}
    /\ rpc = "returned"
    /\ preferences # <<>>
    /\ apc = "threw"
    /\ op = "compare"
    /\ askCalls = 1

====
